---- MODULE Spec2Model ----
\* Content-based recommender (src/server/cb-service/src): Featurizer,
\* eligibility filter, Rocchio retrieval, ranking and the recommender facade,
\* with fit and recommend running as concurrent calls on one
\* ContentBasedRecommender object.
\*
\* Conventions
\*   - a Python str is a sequence of code points (97 = "a", 65 = "A", 32 = " ");
\*   - an Optional value is <<>> (None) or <<v>>;
\*   - a float is a fixed-point integer with Scale units per 1.0;
\*   - a vocabulary and a SparseVector are functions (key -> value); the pool,
\*     whose iteration order decides the order of equal scores, is a sequence
\*     of [id, vec] entries in dict insertion order.
EXTENDS Integers, Sequences, FiniteSets, TLC

\* ---------------------------------------------------------------- bounds
\* fixed-point resolution: Scale units stand for 1.0
Scale == 1000
\* number of fit calls in one behaviour, each in a thread of its own
MaxFits == 2

\* ---------------------------------------------------------------- Optional
None == <<>>

Some(v) == <<v>>

IsNone(o) == Len(o) = 0

\* Python truthiness of an Optional[str]: None and "" are falsy
StrTruthy(o) == Len(o) > 0 /\ Len(o[1]) > 0

\* ---------------------------------------------------------------- str
IsSpace(c) == c \in {9, 10, 11, 12, 13, 32}

\* str.lower() on ASCII letters
Lower(s) == [i \in 1..Len(s) |-> IF s[i] \in 65..90 THEN s[i] + 32 ELSE s[i]]

RECURSIVE LStrip(_)
LStrip(s) ==
    IF Len(s) > 0 /\ IsSpace(s[1]) THEN LStrip(Tail(s)) ELSE s

RECURSIVE RStrip(_)
RStrip(s) ==
    IF Len(s) > 0 /\ IsSpace(s[Len(s)]) THEN RStrip(SubSeq(s, 1, Len(s) - 1)) ELSE s

\* str.strip()
Strip(s) == RStrip(LStrip(s))

\* s < t in Python's str order (lexicographic by code point)
RECURSIVE StrLT(_, _)
StrLT(s, t) ==
    IF Len(t) = 0 THEN FALSE
    ELSE IF Len(s) = 0 THEN TRUE
    ELSE IF s[1] # t[1] THEN s[1] < t[1]
    ELSE StrLT(Tail(s), Tail(t))

\* ---------------------------------------------------------------- lists
RECURSIVE SeqFilterNonEmpty(_)
SeqFilterNonEmpty(xs) ==
    IF Len(xs) = 0 THEN <<>>
    ELSE IF Len(Head(xs)) > 0 THEN <<Head(xs)>> \o SeqFilterNonEmpty(Tail(xs))
    ELSE SeqFilterNonEmpty(Tail(xs))

Range(xs) == {xs[i] : i \in 1..Len(xs)}

RECURSIVE DedupFrom(_, _)
DedupFrom(xs, seen) ==
    IF Len(xs) = 0 THEN <<>>
    ELSE IF Head(xs) \in seen THEN DedupFrom(Tail(xs), seen)
    ELSE <<Head(xs)>> \o DedupFrom(Tail(xs), seen \cup {Head(xs)})

_dedup_keep_order(items) == DedupFrom(items, {})

\* insert s into the ascending list xs, after the entries equal to it
RECURSIVE InsertStr(_, _)
InsertStr(s, xs) ==
    IF Len(xs) = 0 THEN <<s>>
    ELSE IF StrLT(s, Head(xs)) THEN <<s>> \o xs
    ELSE <<Head(xs)>> \o InsertStr(s, Tail(xs))

\* sorted(list of str)
RECURSIVE SortedStr(_)
SortedStr(xs) ==
    IF Len(xs) = 0 THEN <<>>
    ELSE InsertStr(xs[Len(xs)], SortedStr(SubSeq(xs, 1, Len(xs) - 1)))

\* ---------------------------------------------------------------- float
\* a * b
FMul(a, b) ==
    LET p == a * b
    IN  IF p >= 0 THEN p \div Scale ELSE -((-p) \div Scale)

\* a / b, b # 0
FDiv(a, b) ==
    LET n == a * Scale
    IN  IF (n >= 0) = (b > 0) THEN (IF n >= 0 THEN n ELSE -n) \div (IF b > 0 THEN b ELSE -b)
        ELSE -((IF n >= 0 THEN n ELSE -n) \div (IF b > 0 THEN b ELSE -b))

RECURSIVE ISqrtIn(_, _, _)
ISqrtIn(x, lo, hi) ==
    IF lo >= hi THEN lo
    ELSE LET mid == (lo + hi + 1) \div 2
         IN  IF mid * mid <= x THEN ISqrtIn(x, mid, hi) ELSE ISqrtIn(x, lo, mid - 1)

\* math.sqrt(a), a >= 0
FSqrt(a) == ISqrtIn(a * Scale, 0, 40000)

\* ---------------------------------------------------------------- features.py
\* FeaturizerConfig defaults
w_games == Scale

w_categories == (8 * Scale) \div 10

w_languages == (6 * Scale) \div 10

l2_normalize == TRUE

RECURSIVE SumSquares(_, _)
SumSquares(vec, keys) ==
    IF keys = {} THEN 0
    ELSE LET k == CHOOSE x \in keys : TRUE
         IN  FMul(vec[k], vec[k]) + SumSquares(vec, keys \ {k})

_l2_normalize_sparse(vec) ==
    LET s == SumSquares(vec, DOMAIN vec)
    IN  IF s <= 0 THEN vec
        ELSE LET inv == FDiv(Scale, FSqrt(s))
             IN  [k \in DOMAIN vec |-> FMul(vec[k], inv)]

\* FeaturizerState(): the fields' defaults
EmptyState ==
    [vocab_games |-> <<>>, vocab_categories |-> <<>>, vocab_languages |-> <<>>,
     offset_games |-> 0, offset_categories |-> 0, offset_languages |-> 0, dim |-> 0]

RECURSIVE RawGames(_)
RawGames(users) ==
    IF Len(users) = 0 THEN <<>>
    ELSE SeqFilterNonEmpty(Head(users).favorite_games) \o RawGames(Tail(users))

RECURSIVE RawCategories(_)
RawCategories(users) ==
    IF Len(users) = 0 THEN <<>>
    ELSE LET u == Head(users)
         IN  (IF StrTruthy(u.favorite_category) THEN <<u.favorite_category[1]>> ELSE <<>>)
             \o SeqFilterNonEmpty(u.preference_categories)
             \o RawCategories(Tail(users))

RECURSIVE RawLanguages(_)
RawLanguages(users) ==
    IF Len(users) = 0 THEN <<>>
    ELSE LET u == Head(users)
         IN  SeqFilterNonEmpty(u.languages)
             \o SeqFilterNonEmpty(u.preference_languages)
             \o RawLanguages(Tail(users))

RECURSIVE StripAll(_)
StripAll(xs) ==
    IF Len(xs) = 0 THEN <<>>
    ELSE IF Len(Strip(Head(xs))) > 0 THEN <<Strip(Head(xs))>> \o StripAll(Tail(xs))
    ELSE StripAll(Tail(xs))

\* the tokens of a facet in order of first occurrence, not sorted
FacetTokensUnsorted(raw) == _dedup_keep_order(StripAll(raw))

\* sorted(_dedup_keep_order([x.strip() for x in raw if x.strip()]))
FacetTokens(raw) == SortedStr(_dedup_keep_order(StripAll(raw)))

\* for i, g in enumerate(tokens): vocab[g] = offset + i
Enumerate(vocab, tokens, offset) ==
    [tok \in DOMAIN vocab \cup Range(tokens) |->
        IF tok \in Range(tokens)
        THEN offset + (CHOOSE i \in 1..Len(tokens) :
                          tokens[i] = tok /\ \A j \in (i + 1)..Len(tokens) : tokens[j] # tok) - 1
        ELSE vocab[tok]]

\* the languages offset counting the games only
FitOffsetsGamesOnly(st, users) ==
    LET games == FacetTokens(RawGames(users))
    IN  [st EXCEPT !.offset_games = 0,
                   !.offset_categories = Len(games),
                   !.offset_languages = Len(games)]

\* the fields of the state after each block of Featurizer.fit
FitOffsets(st, users) ==
    LET games == FacetTokens(RawGames(users))
        categories == FacetTokens(RawCategories(users))
    IN  [st EXCEPT !.offset_games = 0,
                   !.offset_categories = Len(games),
                   !.offset_languages = Len(games) + Len(categories)]

FitGames(st, users) ==
    [st EXCEPT !.vocab_games =
        Enumerate(st.vocab_games, FacetTokens(RawGames(users)), st.offset_games)]

FitCategories(st, users) ==
    [st EXCEPT !.vocab_categories =
        Enumerate(st.vocab_categories, FacetTokens(RawCategories(users)), st.offset_categories)]

FitLanguages(st, users) ==
    [st EXCEPT !.vocab_languages =
        Enumerate(st.vocab_languages, FacetTokens(RawLanguages(users)), st.offset_languages)]

\* dim set to the offset of the languages, their count left out
FitDimNoLanguages(st, users) ==
    [st EXCEPT !.dim = st.offset_languages]

FitDim(st, users) ==
    [st EXCEPT !.dim = st.offset_languages + Len(FacetTokens(RawLanguages(users)))]

\* Featurizer().fit(users).state
FeaturizerFit(users) ==
    FitDim(FitLanguages(FitCategories(FitGames(FitOffsets(EmptyState, users), users),
                                      users), users), users)

\* {vocab.get(t) for t in set(tokens)} without the misses
Lookup(vocab, tokens) == {vocab[t] : t \in Range(tokens) \cap DOMAIN vocab}

\* for idx in idxs: vec[idx] = w
Put(vec, idxs, w) ==
    [k \in DOMAIN vec \cup idxs |-> IF k \in idxs THEN w ELSE vec[k]]

\* steps 1 to 3 with the preferred categories added onto the entries there are
TransformFacetsAdding(st, user) ==
    LET v1 == Put(<<>>, Lookup(st.vocab_games, user.favorite_games), w_games)
        v2 == IF StrTruthy(user.favorite_category)
              THEN Put(v1, Lookup(st.vocab_categories, <<user.favorite_category[1]>>), w_categories)
              ELSE v1
        v3 == LET idxs == Lookup(st.vocab_categories, user.preference_categories)
              IN  [k \in DOMAIN v2 \cup idxs |->
                      IF k \notin idxs THEN v2[k]
                      ELSE IF k \in DOMAIN v2 THEN v2[k] + w_categories
                      ELSE w_categories]
        v4 == Put(v3, Lookup(st.vocab_languages, user.languages), w_languages)
        v5 == Put(v4, Lookup(st.vocab_languages, user.preference_languages), w_languages)
    IN  v5

\* steps 1 to 3 of transform: vec before the L2 normalization
TransformFacets(st, user) ==
    LET v1 == Put(<<>>, Lookup(st.vocab_games, user.favorite_games), w_games)
        v2 == IF StrTruthy(user.favorite_category)
              THEN Put(v1, Lookup(st.vocab_categories, <<user.favorite_category[1]>>), w_categories)
              ELSE v1
        v3 == Put(v2, Lookup(st.vocab_categories, user.preference_categories), w_categories)
        v4 == Put(v3, Lookup(st.vocab_languages, user.languages), w_languages)
        v5 == Put(v4, Lookup(st.vocab_languages, user.preference_languages), w_languages)
    IN  v5

transform(st, user) ==
    IF l2_normalize THEN _l2_normalize_sparse(TransformFacets(st, user))
    ELSE TransformFacets(st, user)

\* cosine_sparse(a, b): dot product over the common keys
RECURSIVE Dot(_, _, _)
Dot(a, b, keys) ==
    IF keys = {} THEN 0
    ELSE LET k == CHOOSE x \in keys : TRUE
         IN  FMul(a[k], b[k]) + Dot(a, b, keys \ {k})

cosine_sparse(a, b) == Dot(a, b, DOMAIN a \cap DOMAIN b)

\* dst += scale * src
add_scaled(dst, src, scale) ==
    [k \in DOMAIN dst \cup DOMAIN src |->
        IF k \in DOMAIN src
        THEN (IF k \in DOMAIN dst THEN dst[k] ELSE 0) + FMul(scale, src[k])
        ELSE dst[k]]

\* ---------------------------------------------------------------- filters.py
\* make_eligibility_filter(probe)(u): the age window
AgeOk(probe, u) ==
    IF ~IsNone(probe.preference_age_min) /\ ~IsNone(u.age)
          /\ u.age[1] < probe.preference_age_min[1]
    THEN FALSE
    ELSE IF ~IsNone(probe.preference_age_max) /\ ~IsNone(u.age)
               /\ u.age[1] > probe.preference_age_max[1]
    THEN FALSE
    ELSE TRUE

s_any == <<97, 110, 121>>

\* the gender rule without the strip() of the preference
GenderOkNoStrip(probe, u) ==
    IF StrTruthy(probe.preference_gender)
    THEN LET pref == Lower(probe.preference_gender[1])
         IN  IF pref \notin {s_any, <<>>}
             THEN ~(StrTruthy(u.gender) /\ Lower(u.gender[1]) # pref)
             ELSE TRUE
    ELSE TRUE

\* make_eligibility_filter(probe)(u): the gender rule
GenderOk(probe, u) ==
    IF StrTruthy(probe.preference_gender)
    THEN LET pref == Lower(Strip(probe.preference_gender[1]))
         IN  IF pref \notin {s_any, <<>>}
             THEN ~(StrTruthy(u.gender) /\ Lower(u.gender[1]) # pref)
             ELSE TRUE
    ELSE TRUE

\* make_eligibility_filter(probe)(u)
_ok(probe, u) == AgeOk(probe, u) /\ GenderOk(probe, u)

\* ---------------------------------------------------------------- retrieval.py
\* pool.get(id): None, or the vector stored under id
PoolGet(pool, id) ==
    IF \E i \in 1..Len(pool) : pool[i].id = id
    THEN Some(pool[CHOOSE i \in 1..Len(pool) : pool[i].id = id].vec)
    ELSE None

\* the loop of build_centroid without the seen set
RECURSIVE CentroidLoopNoSeen(_, _, _, _, _)
CentroidLoopNoSeen(ids, pool, seen, accum, sum_w) ==
    IF Len(ids) = 0 THEN [accum |-> accum, sum_w |-> sum_w]
    ELSE LET id == Head(ids)
             v == PoolGet(pool, id)
         IN  IF Len(id) = 0
             THEN CentroidLoopNoSeen(Tail(ids), pool, seen, accum, sum_w)
             ELSE IF IsNone(v) \/ DOMAIN v[1] = {}
             THEN CentroidLoopNoSeen(Tail(ids), pool, seen, accum, sum_w)
             ELSE CentroidLoopNoSeen(Tail(ids), pool, seen,
                                     add_scaled(accum, v[1], Scale), sum_w + Scale)

\* the loop of build_centroid: [accum, sum_w] after the ids
RECURSIVE CentroidLoop(_, _, _, _, _)
CentroidLoop(ids, pool, seen, accum, sum_w) ==
    IF Len(ids) = 0 THEN [accum |-> accum, sum_w |-> sum_w]
    ELSE LET id == Head(ids)
             v == PoolGet(pool, id)
         IN  IF Len(id) = 0 \/ id \in seen
             THEN CentroidLoop(Tail(ids), pool, seen, accum, sum_w)
             ELSE IF IsNone(v) \/ DOMAIN v[1] = {}
             THEN CentroidLoop(Tail(ids), pool, seen \cup {id}, accum, sum_w)
             ELSE CentroidLoop(Tail(ids), pool, seen \cup {id},
                               add_scaled(accum, v[1], Scale), sum_w + Scale)

\* build_centroid(ids, pool) with weights=None: None, or the centroid
build_centroid(ids, pool) ==
    LET r == CentroidLoop(ids, pool, {}, <<>>, 0)
    IN  IF r.sum_w = 0 THEN None
        ELSE Some(_l2_normalize_sparse(
                 [k \in DOMAIN r.accum |-> FDiv(r.accum[k], r.sum_w)]))

rocchio_query(q_base, lbar, dbar, alpha, beta, gamma) ==
    LET a1 == add_scaled(<<>>, q_base, alpha)
        a2 == IF ~IsNone(lbar) /\ DOMAIN lbar[1] # {} THEN add_scaled(a1, lbar[1], beta) ELSE a1
        a3 == IF ~IsNone(dbar) /\ DOMAIN dbar[1] # {} THEN add_scaled(a2, dbar[1], -gamma) ELSE a2
    IN  _l2_normalize_sparse(a3)

\* ---------------------------------------------------------------- ranking.py
\* insert e into the list xs sorted by score descending, after the entries
\* whose score is not smaller (list.sort is stable, also with reverse=True)
RECURSIVE InsertScore(_, _)
InsertScore(e, xs) ==
    IF Len(xs) = 0 THEN <<e>>
    ELSE IF e.score > Head(xs).score THEN <<e>> \o xs
    ELSE <<Head(xs)>> \o InsertScore(e, Tail(xs))

\* the ranking without the sort
SortScoresNone(xs) == xs

\* scores.sort(key=lambda x: x[1], reverse=True)
RECURSIVE SortScores(_)
SortScores(xs) ==
    IF Len(xs) = 0 THEN <<>>
    ELSE InsertScore(xs[Len(xs)], SortScores(SubSeq(xs, 1, Len(xs) - 1)))

\* the loop of score_against_pool; exclude is an Optional[str]
RECURSIVE ScoreLoop(_, _, _)
ScoreLoop(query, pool, exclude) ==
    IF Len(pool) = 0 THEN <<>>
    ELSE IF StrTruthy(exclude) /\ Head(pool).id = exclude[1]
    THEN ScoreLoop(query, Tail(pool), exclude)
    ELSE <<[id |-> Head(pool).id, score |-> cosine_sparse(query, Head(pool).vec)]>>
         \o ScoreLoop(query, Tail(pool), exclude)

score_against_pool(query, pool, exclude) == SortScores(ScoreLoop(query, pool, exclude))

\* the slice taken one entry too long: scores[:k + 1]
topkOneMore(scores, k) ==
    SubSeq(scores, 1, IF k + 1 < Len(scores) THEN k + 1 ELSE Len(scores))

\* scores[:k]
topk(scores, k) ==
    IF k >= 0 THEN SubSeq(scores, 1, IF k < Len(scores) THEN k ELSE Len(scores))
    ELSE SubSeq(scores, 1, Len(scores) + k)

\* ---------------------------------------------------------------- data_models.py
User(id, age, gender, favorite_category, preference_gender, preference_age_min, preference_age_max, favorite_games, languages, preference_categories, preference_languages, liked, disliked) ==
    [id |-> id, age |-> age, gender |-> gender, favorite_category |-> favorite_category,
     preference_gender |-> preference_gender, preference_age_min |-> preference_age_min,
     preference_age_max |-> preference_age_max, favorite_games |-> favorite_games,
     languages |-> languages, preference_categories |-> preference_categories,
     preference_languages |-> preference_languages, liked |-> liked, disliked |-> disliked]

\* ---------------------------------------------------------------- inputs
\* tokens "a", "b" (games), "c" (category), "e" (language), "q" (unknown game)
tok_a == <<97>>

tok_b == <<98>>

tok_c == <<99>>

tok_e == <<101>>

tok_q == <<113>>

\* ids "t", "x", "y", "z", "m", "o", "n", "k"
id_t == <<116>>

id_x == <<120>>

id_y == <<121>>

id_z == <<122>>

id_m == <<109>>

id_o == <<111>>

id_n == <<110>>

id_k == <<107>>

\* the target: wants a partner of gender "F " aged 20..30, likes x, dislikes y
uT == User(id_t, Some(25), Some(<<109>>), None, Some(<<70, 32>>), Some(20), Some(30),
           <<tok_a, tok_b>>, <<tok_e>>, <<>>, <<>>, <<id_x>>, <<id_y>>)

uX == User(id_x, Some(22), Some(<<102>>), None, None, None, None,
           <<tok_a>>, <<tok_e>>, <<>>, <<>>, <<>>, <<>>)

uY == User(id_y, Some(30), Some(<<70>>), None, None, None, None,
           <<tok_b>>, <<>>, <<>>, <<>>, <<>>, <<>>)

\* the same features as x; age and gender unknown
uZ == User(id_z, None, None, None, None, None, None,
           <<tok_a>>, <<>>, <<>>, <<tok_e>>, <<>>, <<>>)

\* rejected by the target's gender preference
uM == User(id_m, Some(25), Some(<<109>>), None, None, None, None,
           <<tok_a, tok_b>>, <<tok_e>>, <<>>, <<>>, <<>>, <<>>)

\* rejected by the target's age window
uO == User(id_o, Some(31), Some(<<102>>), None, None, None, None,
           <<tok_a, tok_b>>, <<tok_e>>, <<>>, <<>>, <<>>, <<>>)

\* eligible, no token of any fitted vocabulary
uN == User(id_n, Some(20), Some(<<102>>), None, None, None, None,
           <<tok_q>>, <<>>, <<>>, <<>>, <<>>, <<>>)

\* a user with a favorite category, present in the population only
uK == User(id_k, None, None, Some(tok_c), None, None, None,
           <<>>, <<>>, <<>>, <<>>, <<>>, <<>>)

\* the populations fit is called with (the last one is empty)
Populations ==
    { <<uT, uX, uK>>, <<>> }

\* the requests recommend is called with
Requests ==
    { [target |-> uT, candidates |-> <<uZ, uX, uM, uT, uY>>, top_k |-> 2, mode |-> "strict"],
      [target |-> uT, candidates |-> <<uY, uN, uX, uO>>, top_k |-> 5, mode |-> "feedback"] }

\* ---------------------------------------------------------------- recommender.py
\* ContentBasedRecommender defaults
alpha == Scale

beta == (6 * Scale) \div 10

gamma == (3 * Scale) \div 10

VARIABLES
    heap,          \* heap[g]: the state of the Featurizer object that fit call g constructs
    featurizer,    \* self.featurizer: 0 (None) or an object of heap
    users_cache,   \* self._users_cache
    pc,            \* pc[t]: where thread t is in its call
    loc,           \* loc[t]: the locals of thread t's call, kept after it returns
    lastPub,       \* history: the users of the fit that assigned self.featurizer last
    fn             \* the pure-function harness: [op, in, out]

vars == <<heap, featurizer, users_cache, pc, loc, lastPub, fn>>

\* fit call g runs in thread g
FitThreads == 1..MaxFits

\* the thread that calls recommend, again and again (recommend writes nothing
\* another recommend reads, so one reader shows all a reader can see)
Readers == {MaxFits + 1}

Threads == FitThreads \cup Readers

\* the locals of a thread: of no call yet, of fit, of fit after it returned,
\* of recommend (genT, genC, quiet and sawNone are history: the objects that
\* self.featurizer gave for the target and for the candidates, whether no fit
\* has been running since the call was entered, whether line 53 saw None)
NoFrame == [op |-> "none", done |-> FALSE, raised |-> FALSE]

FitFrame(users, fe) ==
    [op |-> "fit", users |-> users, fe |-> fe, done |-> FALSE, raised |-> FALSE]

FitDoneFrame(raised) == [op |-> "fit", done |-> TRUE, raised |-> raised]

\* the locals of recommend with the pool kept from the call before, as a
\* pool cached on the recommender would be
RecFrameKeepsPool(req, quiet) ==
    [op |-> "recommend", target |-> req.target, candidates |-> req.candidates,
     top_k |-> req.top_k, mode |-> req.mode, q_base_all |-> <<>>, users_filtered |-> <<>>,
     i |-> 0,
     pool_vecs |-> IF loc[MaxFits + 1].op = "recommend" THEN loc[MaxFits + 1].pool_vecs
                   ELSE <<>>,
     scores |-> <<>>, result |-> <<>>, raised |-> FALSE,
     done |-> FALSE, sawNone |-> FALSE, genT |-> 0, genC |-> {}, quiet |-> quiet]

RecFrame(req, quiet) ==
    [op |-> "recommend", target |-> req.target, candidates |-> req.candidates,
     top_k |-> req.top_k, mode |-> req.mode, q_base_all |-> <<>>, users_filtered |-> <<>>,
     i |-> 0, pool_vecs |-> <<>>, scores |-> <<>>, result |-> <<>>, raised |-> FALSE,
     done |-> FALSE, sawNone |-> FALSE, genT |-> 0, genC |-> {}, quiet |-> quiet]

\* a fit is entered: the recommend calls in flight are no longer quiet
Unquiet(frame) ==
    IF frame.op = "recommend" THEN [frame EXCEPT !.quiet = FALSE] ELSE frame

NoFn == [op |-> "none"]

Init ==
    /\ heap = [g \in FitThreads |-> EmptyState]
    /\ featurizer = 0
    /\ users_cache = <<>>
    /\ pc = [t \in Threads |-> "idle"]
    /\ loc = [t \in Threads |-> NoFrame]
    /\ lastPub = None
    /\ fn = NoFn

FitRunning == \E t \in FitThreads : pc[t] # "idle"

\* ---- fit -----------------------------------------------------------------
\* fit as an in-place refit: the new Featurizer is assigned to self.featurizer
\* before Featurizer.fit has filled it
FitNewInPlace(t, users) ==
    /\ pc[t] = "idle" /\ loc[t].op = "none"
    /\ \A g \in FitThreads : g < t => loc[g].op = "fit"
    /\ heap' = [heap EXCEPT ![t] = EmptyState]
    /\ featurizer' = t
    /\ loc' = [u \in Threads |->
                  IF u = t THEN FitFrame(users, t) ELSE Unquiet(loc[u])]
    /\ pc' = [pc EXCEPT ![t] = "fit_offsets"]
    /\ UNCHANGED <<users_cache, lastPub, fn>>

\* fit that drops the current generation before it builds the next
FitNewResets(t, users) ==
    /\ pc[t] = "idle" /\ loc[t].op = "none"
    /\ \A g \in FitThreads : g < t => loc[g].op = "fit"
    /\ heap' = [heap EXCEPT ![t] = EmptyState]
    /\ featurizer' = 0
    /\ loc' = [u \in Threads |->
                  IF u = t THEN FitFrame(users, t) ELSE Unquiet(loc[u])]
    /\ pc' = [pc EXCEPT ![t] = "fit_offsets"]
    /\ UNCHANGED <<users_cache, lastPub, fn>>

\* fit that refits the Featurizer it holds, without the reset of its state
FitNewMerges(t, users) ==
    /\ pc[t] = "idle" /\ loc[t].op = "none"
    /\ \A g \in FitThreads : g < t => loc[g].op = "fit"
    /\ heap' = [heap EXCEPT ![t] = IF featurizer = 0 THEN EmptyState ELSE heap[featurizer]]
    /\ loc' = [u \in Threads |->
                  IF u = t THEN FitFrame(users, t) ELSE Unquiet(loc[u])]
    /\ pc' = [pc EXCEPT ![t] = "fit_offsets"]
    /\ UNCHANGED <<featurizer, users_cache, lastPub, fn>>

\* fit(users) is entered: Featurizer(), and the reset of its state at the head
\* of Featurizer.fit (fit calls are numbered in the order they are entered)
FitNew(t, users) ==
    /\ pc[t] = "idle" /\ loc[t].op = "none"
    /\ \A g \in FitThreads : g < t => loc[g].op = "fit"
    /\ heap' = [heap EXCEPT ![t] = EmptyState]
    /\ loc' = [u \in Threads |->
                  IF u = t THEN FitFrame(users, t) ELSE Unquiet(loc[u])]
    /\ pc' = [pc EXCEPT ![t] = "fit_offsets"]
    /\ UNCHANGED <<featurizer, users_cache, lastPub, fn>>

\* Featurizer.fit, lines 96-102: the three offsets, on the object under construction
FitStepOffsets(t) ==
    /\ pc[t] = "fit_offsets"
    /\ heap' = [heap EXCEPT ![loc[t].fe] = FitOffsets(heap[loc[t].fe], loc[t].users)]
    /\ pc' = [pc EXCEPT ![t] = "fit_games"]
    /\ UNCHANGED <<featurizer, users_cache, loc, lastPub, fn>>

\* Featurizer.fit, lines 104-105: vocab_games, on the object under construction
FitStepGames(t) ==
    /\ pc[t] = "fit_games"
    /\ heap' = [heap EXCEPT ![loc[t].fe] = FitGames(heap[loc[t].fe], loc[t].users)]
    /\ pc' = [pc EXCEPT ![t] = "fit_categories"]
    /\ UNCHANGED <<featurizer, users_cache, loc, lastPub, fn>>

\* Featurizer.fit, lines 107-108: vocab_categories, on the object under construction
FitStepCategories(t) ==
    /\ pc[t] = "fit_categories"
    /\ heap' = [heap EXCEPT ![loc[t].fe] = FitCategories(heap[loc[t].fe], loc[t].users)]
    /\ pc' = [pc EXCEPT ![t] = "fit_languages"]
    /\ UNCHANGED <<featurizer, users_cache, loc, lastPub, fn>>

\* Featurizer.fit, lines 110-111: vocab_languages, on the object under construction
FitStepLanguages(t) ==
    /\ pc[t] = "fit_languages"
    /\ heap' = [heap EXCEPT ![loc[t].fe] = FitLanguages(heap[loc[t].fe], loc[t].users)]
    /\ pc' = [pc EXCEPT ![t] = "fit_dim"]
    /\ UNCHANGED <<featurizer, users_cache, loc, lastPub, fn>>

\* Featurizer.fit, line 113: dim, on the object under construction
FitStepDim(t) ==
    /\ pc[t] = "fit_dim"
    /\ heap' = [heap EXCEPT ![loc[t].fe] = FitDim(heap[loc[t].fe], loc[t].users)]
    /\ pc' = [pc EXCEPT ![t] = "fit_publish"]
    /\ UNCHANGED <<featurizer, users_cache, loc, lastPub, fn>>

\* a fit that publishes only when no generation is held yet
FitPublishFirstWins(t) ==
    /\ pc[t] = "fit_publish"
    /\ featurizer' = IF featurizer = 0 THEN loc[t].fe ELSE featurizer
    /\ lastPub' = Some(loc[t].users)
    /\ pc' = [pc EXCEPT ![t] = "fit_return"]
    /\ UNCHANGED <<heap, users_cache, loc, fn>>

\* line 23: self.featurizer = <the Featurizer that Featurizer.fit returned>
FitPublish(t) ==
    /\ pc[t] = "fit_publish"
    /\ featurizer' = loc[t].fe
    /\ lastPub' = Some(loc[t].users)
    /\ pc' = [pc EXCEPT ![t] = "fit_return"]
    /\ UNCHANGED <<heap, users_cache, loc, fn>>

\* lines 24-32: self._users_cache = users; logger.info(...,
\* self.featurizer.state.dim, ...), which raises on None; return self
FitReturn(t) ==
    /\ pc[t] = "fit_return"
    /\ users_cache' = loc[t].users
    /\ loc' = [loc EXCEPT ![t] = FitDoneFrame(featurizer = 0)]
    /\ pc' = [pc EXCEPT ![t] = "idle"]
    /\ UNCHANGED <<heap, featurizer, lastPub, fn>>

\* ---- recommend -----------------------------------------------------------
\* the filter without the eligibility predicate
RECURSIVE FilterCandidatesNoElig(_, _)
FilterCandidatesNoElig(target, candidates) ==
    IF Len(candidates) = 0 THEN <<>>
    ELSE IF Head(candidates).id # target.id
    THEN <<Head(candidates)>> \o FilterCandidatesNoElig(target, Tail(candidates))
    ELSE FilterCandidatesNoElig(target, Tail(candidates))

\* [u for u in candidates if u.id != target_user.id and elig(u)]
RECURSIVE FilterCandidates(_, _)
FilterCandidates(target, candidates) ==
    IF Len(candidates) = 0 THEN <<>>
    ELSE IF Head(candidates).id # target.id /\ _ok(target, Head(candidates))
    THEN <<Head(candidates)>> \o FilterCandidates(target, Tail(candidates))
    ELSE FilterCandidates(target, Tail(candidates))

\* the pool as a list: one entry for every candidate, whatever its id
PoolSetAppends(pool, id, vec) == Append(pool, [id |-> id, vec |-> vec])

\* pool_vecs[id] = vec
PoolSet(pool, id, vec) ==
    IF \E i \in 1..Len(pool) : pool[i].id = id
    THEN [i \in 1..Len(pool) |-> IF pool[i].id = id THEN [id |-> id, vec |-> vec] ELSE pool[i]]
    ELSE Append(pool, [id |-> id, vec |-> vec])

\* the loop of lines 71-75 against one Featurizer state
RECURSIVE PoolLoop(_, _, _)
PoolLoop(st, users, pool) ==
    IF Len(users) = 0 THEN pool
    ELSE LET vec == transform(st, Head(users))
         IN  PoolLoop(st, Tail(users),
                      IF DOMAIN vec # {} THEN PoolSet(pool, Head(users).id, vec) ELSE pool)

\* the query with every unrecognized mode taken as "strict"
BuildQueryStrictDefault(mode, target, q_base_all, pool) ==
    IF mode # "feedback" THEN q_base_all
    ELSE rocchio_query(q_base_all,
                       build_centroid(target.liked, pool),
                       build_centroid(target.disliked, pool),
                       alpha, beta, gamma)

\* the query of lines 82-97
BuildQuery(mode, target, q_base_all, pool) ==
    IF mode = "strict" THEN q_base_all
    ELSE rocchio_query(q_base_all,
                       build_centroid(target.liked, pool),
                       build_centroid(target.disliked, pool),
                       alpha, beta, gamma)

\* recommend without the guard of lines 53-55
RecCheckNoGuard(t, req) ==
    /\ pc[t] = "idle"
    /\ loc' = [loc EXCEPT ![t] = RecFrame(req, ~FitRunning)]
    /\ pc' = [pc EXCEPT ![t] = "rec_target"]
    /\ UNCHANGED <<heap, featurizer, users_cache, lastPub, fn>>

\* recommend(target_user, candidates, top_k, mode) is entered;
\* lines 53-55: if not self.featurizer: return []
RecCheck(t, req) ==
    /\ pc[t] = "idle"
    /\ LET frame == RecFrame(req, ~FitRunning)
       IN  IF featurizer = 0
           THEN /\ loc' = [loc EXCEPT ![t] = [frame EXCEPT !.sawNone = TRUE, !.result = <<>>,
                                                           !.done = TRUE]]
                /\ pc' = pc
           ELSE /\ loc' = [loc EXCEPT ![t] = frame]
                /\ pc' = [pc EXCEPT ![t] = "rec_target"]
    /\ UNCHANGED <<heap, featurizer, users_cache, lastPub, fn>>

\* lines 58-68 with the filter applied to the caller's list in place
\* (candidates[:] = [u for u in candidates if ...])
RecTargetFiltersInPlace(t) ==
    /\ pc[t] = "rec_target"
    /\ IF featurizer = 0
       THEN /\ loc' = [loc EXCEPT ![t].raised = TRUE, ![t].done = TRUE]
            /\ pc' = [pc EXCEPT ![t] = "idle"]
       ELSE LET q == transform(heap[featurizer], loc[t].target)
                uf == FilterCandidates(loc[t].target, loc[t].candidates)
            IN  IF DOMAIN q = {} \/ Len(uf) = 0
                THEN /\ loc' = [loc EXCEPT ![t].q_base_all = q, ![t].genT = featurizer,
                                           ![t].result = <<>>, ![t].done = TRUE]
                     /\ pc' = [pc EXCEPT ![t] = "idle"]
                ELSE /\ loc' = [loc EXCEPT ![t].q_base_all = q, ![t].genT = featurizer,
                                           ![t].users_filtered = uf, ![t].candidates = uf,
                                           ![t].i = 1]
                     /\ pc' = [pc EXCEPT ![t] = "rec_pool"]
    /\ UNCHANGED <<heap, featurizer, users_cache, lastPub, fn>>

\* lines 58-68 without the return on an empty target vector (lines 59-61)
RecTargetNoEmptyCheck(t) ==
    /\ pc[t] = "rec_target"
    /\ IF featurizer = 0
       THEN /\ loc' = [loc EXCEPT ![t].raised = TRUE, ![t].done = TRUE]
            /\ pc' = [pc EXCEPT ![t] = "idle"]
       ELSE LET q == transform(heap[featurizer], loc[t].target)
                uf == FilterCandidates(loc[t].target, loc[t].candidates)
            IN  IF Len(uf) = 0
                THEN /\ loc' = [loc EXCEPT ![t].q_base_all = q, ![t].genT = featurizer,
                                           ![t].result = <<>>, ![t].done = TRUE]
                     /\ pc' = [pc EXCEPT ![t] = "idle"]
                ELSE /\ loc' = [loc EXCEPT ![t].q_base_all = q, ![t].genT = featurizer,
                                           ![t].users_filtered = uf, ![t].i = 1]
                     /\ pc' = [pc EXCEPT ![t] = "rec_pool"]
    /\ UNCHANGED <<heap, featurizer, users_cache, lastPub, fn>>

\* lines 58-68: self.featurizer.transform(target_user), then the filter
RecTarget(t) ==
    /\ pc[t] = "rec_target"
    /\ IF featurizer = 0
       THEN \* None has no attribute transform
            /\ loc' = [loc EXCEPT ![t].raised = TRUE, ![t].done = TRUE]
            /\ pc' = [pc EXCEPT ![t] = "idle"]
       ELSE LET q == transform(heap[featurizer], loc[t].target)
                uf == FilterCandidates(loc[t].target, loc[t].candidates)
            IN  IF DOMAIN q = {} \/ Len(uf) = 0
                THEN /\ loc' = [loc EXCEPT ![t].q_base_all = q, ![t].genT = featurizer,
                                           ![t].result = <<>>, ![t].done = TRUE]
                     /\ pc' = [pc EXCEPT ![t] = "idle"]
                ELSE /\ loc' = [loc EXCEPT ![t].q_base_all = q, ![t].genT = featurizer,
                                           ![t].users_filtered = uf, ![t].i = 1]
                     /\ pc' = [pc EXCEPT ![t] = "rec_pool"]
    /\ UNCHANGED <<heap, featurizer, users_cache, lastPub, fn>>

\* lines 72-75, one iteration: vec = self.featurizer.transform(u)
RecPool(t) ==
    /\ pc[t] = "rec_pool"
    /\ IF featurizer = 0
       THEN /\ loc' = [loc EXCEPT ![t].raised = TRUE, ![t].done = TRUE]
            /\ pc' = [pc EXCEPT ![t] = "idle"]
       ELSE LET u == loc[t].users_filtered[loc[t].i]
                vec == transform(heap[featurizer], u)
            IN  /\ loc' = [loc EXCEPT
                              ![t].pool_vecs = IF DOMAIN vec # {}
                                               THEN PoolSet(loc[t].pool_vecs, u.id, vec)
                                               ELSE loc[t].pool_vecs,
                              ![t].genC = loc[t].genC \cup {featurizer},
                              ![t].i = loc[t].i + 1]
                /\ pc' = [pc EXCEPT ![t] = IF loc[t].i = Len(loc[t].users_filtered)
                                           THEN "rec_rank" ELSE "rec_pool"]
    /\ UNCHANGED <<heap, featurizer, users_cache, lastPub, fn>>

\* lines 77-101 with the centroids built from the vectors of all candidates
\* of the request, the ineligible ones included
RecRankCentroidsOverAll(t) ==
    /\ pc[t] = "rec_rank"
    /\ IF Len(loc[t].pool_vecs) = 0
       THEN loc' = [loc EXCEPT ![t].result = <<>>, ![t].done = TRUE]
       ELSE LET all == PoolLoop(heap[featurizer], loc[t].candidates, <<>>)
                q_query == IF loc[t].mode = "strict" THEN loc[t].q_base_all
                           ELSE rocchio_query(loc[t].q_base_all,
                                              build_centroid(loc[t].target.liked, all),
                                              build_centroid(loc[t].target.disliked, all),
                                              alpha, beta, gamma)
                scores == score_against_pool(q_query, loc[t].pool_vecs, None)
            IN  loc' = [loc EXCEPT ![t].scores = scores,
                                   ![t].result = topk(scores, loc[t].top_k),
                                   ![t].done = TRUE]
    /\ pc' = [pc EXCEPT ![t] = "idle"]
    /\ UNCHANGED <<heap, featurizer, users_cache, lastPub, fn>>

\* the ranking with the first disliked id of the target excluded
RecRankExcludesDisliked(t) ==
    /\ pc[t] = "rec_rank"
    /\ IF Len(loc[t].pool_vecs) = 0
       THEN loc' = [loc EXCEPT ![t].result = <<>>, ![t].done = TRUE]
       ELSE LET q_query == BuildQuery(loc[t].mode, loc[t].target, loc[t].q_base_all,
                                      loc[t].pool_vecs)
                exclude == IF Len(loc[t].target.disliked) = 0 THEN None
                           ELSE Some(loc[t].target.disliked[1])
                scores == score_against_pool(q_query, loc[t].pool_vecs, exclude)
            IN  loc' = [loc EXCEPT ![t].scores = scores,
                                   ![t].result = topk(scores, loc[t].top_k),
                                   ![t].done = TRUE]
    /\ pc' = [pc EXCEPT ![t] = "idle"]
    /\ UNCHANGED <<heap, featurizer, users_cache, lastPub, fn>>

\* lines 77-101: empty pool, query, score_against_pool, topk
RecRank(t) ==
    /\ pc[t] = "rec_rank"
    /\ IF Len(loc[t].pool_vecs) = 0
       THEN loc' = [loc EXCEPT ![t].result = <<>>, ![t].done = TRUE]
       ELSE LET q_query == BuildQuery(loc[t].mode, loc[t].target, loc[t].q_base_all,
                                      loc[t].pool_vecs)
                scores == score_against_pool(q_query, loc[t].pool_vecs, None)
            IN  loc' = [loc EXCEPT ![t].scores = scores,
                                   ![t].result = topk(scores, loc[t].top_k),
                                   ![t].done = TRUE]
    /\ pc' = [pc EXCEPT ![t] = "idle"]
    /\ UNCHANGED <<heap, featurizer, users_cache, lastPub, fn>>

Next ==
    \/ \E t \in FitThreads :
        \/ \E users \in Populations : FitNew(t, users)
        \/ FitStepOffsets(t)
        \/ FitStepGames(t)
        \/ FitStepCategories(t)
        \/ FitStepLanguages(t)
        \/ FitStepDim(t)
        \/ FitPublish(t)
        \/ FitReturn(t)
    \/ \E t \in Readers :
        \/ \E req \in Requests : RecCheck(t, req)
        \/ RecTarget(t)
        \/ RecPool(t)
        \/ RecRank(t)

Spec == Init /\ [][Next]_vars

\* ---------------------------------------------------------------- the filter alone
\* a user with nothing but the fields the eligibility filter reads
Probe(preference_gender, preference_age_min, preference_age_max) ==
    User(id_t, None, None, None, preference_gender, preference_age_min, preference_age_max,
         <<>>, <<>>, <<>>, <<>>, <<>>, <<>>)

Candidate(age, gender) ==
    User(id_x, age, gender, None, None, None, None, <<>>, <<>>, <<>>, <<>>, <<>>, <<>>)

\* None, "", " ", "any", "ANY", " Any ", "f", "F ", "m"
PreferenceGenders ==
    { None, Some(<<>>), Some(<<32>>), Some(s_any), Some(<<65, 78, 89>>),
      Some(<<32, 65, 110, 121, 32>>), Some(<<102>>), Some(<<70, 32>>), Some(<<109>>) }

\* None, "", "f", "F", "m", "f "
Genders ==
    { None, Some(<<>>), Some(<<102>>), Some(<<70>>), Some(<<109>>), Some(<<102, 32>>) }

Probes ==
    { Probe(g, lo, hi) : g \in PreferenceGenders, lo \in {None, Some(20)},
                         hi \in {None, Some(30)} }

Candidates ==
    { Candidate(a, g) : a \in {None, Some(19), Some(20), Some(30), Some(31)}, g \in Genders }

InitFilter ==
    /\ heap = [g \in FitThreads |-> EmptyState]
    /\ featurizer = 0
    /\ users_cache = <<>>
    /\ pc = [t \in Threads |-> "idle"]
    /\ loc = [t \in Threads |-> NoFrame]
    /\ lastPub = None
    /\ fn \in { [op |-> "elig", probe |-> p, u |-> c, out |-> None] :
                   p \in Probes, c \in Candidates }

\* elig = make_eligibility_filter(probe); elig(u)
ApplyFilter ==
    /\ fn.op = "elig" /\ IsNone(fn.out)
    /\ fn' = [fn EXCEPT !.out = Some([age |-> AgeOk(fn.probe, fn.u),
                                      gender |-> GenderOk(fn.probe, fn.u),
                                      ok |-> _ok(fn.probe, fn.u)])]
    /\ UNCHANGED <<heap, featurizer, users_cache, pc, loc, lastPub>>

NextFilter == ApplyFilter

SpecFilter == InitFilter /\ [][NextFilter]_vars

\* ---------------------------------------------------------------- recommend on a fitted recommender
\* recommend(target_user, candidates, top_k, mode) run from line 57 to its
\* return against the one Featurizer state st, no fit in between
recommend(st, target, candidates, top_k, mode) ==
    LET q_base_all == transform(st, target)
        users_filtered == FilterCandidates(target, candidates)
        pool_vecs == PoolLoop(st, users_filtered, <<>>)
    IN  IF DOMAIN q_base_all = {} \/ Len(users_filtered) = 0 \/ Len(pool_vecs) = 0
        THEN <<>>
        ELSE topk(score_against_pool(BuildQuery(mode, target, q_base_all, pool_vecs),
                                     pool_vecs, None), top_k)

\* target_user with the liked and disliked lists of a request
WithFeedback(u, liked, disliked) == [u EXCEPT !.liked = liked, !.disliked = disliked]

\* the target with no token of any fitted vocabulary
uQ == User(id_t, Some(25), Some(<<109>>), None, None, None, None,
           <<tok_q>>, <<>>, <<>>, <<>>, <<id_x>>, <<>>)

\* ids "p", "r"
id_p == <<112>>

id_r == <<114>>

\* the target uT with the favorite category "c" and a liked id that is no
\* candidate; two eligible candidates whose cosines with it are equal in
\* exact arithmetic: 2 / sqrt(6) for {a, c, e} and for {a, b}
uTc == [uT EXCEPT !.favorite_category = Some(tok_c), !.liked = <<id_k>>, !.disliked = <<>>]

uP == User(id_p, None, None, Some(tok_c), None, None, None,
           <<tok_a>>, <<tok_e>>, <<>>, <<>>, <<>>, <<>>)

uR == User(id_r, None, None, None, None, None, None,
           <<tok_a, tok_b>>, <<>>, <<>>, <<>>, <<>>, <<>>)

\* a second candidate of id "x", with another game
uXb == [uX EXCEPT !.favorite_games = <<tok_b>>]

\* the targets: uT as it is (likes x, dislikes y); with liked ids that are
\* ineligible (m), without a vector (n), repeated (x) and disliked ids that
\* are no candidate (k) or the target itself; with no liked or disliked id
\* that can be in a pool ("" included); with no feedback; without a vector
CallTargets ==
    { uT,
      WithFeedback(uT, <<id_m, id_x, id_n, id_x>>, <<id_k, id_t>>),
      WithFeedback(uT, <<id_n, id_k>>, <<id_m, <<>>>>),
      WithFeedback(uT, <<>>, <<>>),
      uTc,
      uQ }

\* the candidate lists: the two of Requests, the two candidates of equal
\* exact cosine, one whose only eligible candidate has no vector, one with no
\* eligible candidate, the empty one, one that holds the id "x" twice
CallCandidates ==
    { <<uZ, uX, uM, uT, uY>>, <<uY, uN, uX, uO>>, <<uP, uR>>, <<uN, uM>>,
      <<uM, uO, uT>>, <<>>, <<uX, uY, uXb>> }

CallTopKs == {-1, 0, 1, 2, 5}

\* "foo" stands for any string that is neither "strict" nor "feedback"
CallModes == {"strict", "feedback", "foo"}

CallRequests ==
    { [target |-> tg, candidates |-> cs, top_k |-> k, mode |-> m] :
         tg \in CallTargets, cs \in CallCandidates, k \in CallTopKs, m \in CallModes }

\* the recommender after fit(users) has returned, no call in flight
InitCalls ==
    /\ \E users \in Populations :
          /\ heap = [g \in FitThreads |-> IF g = 1 THEN FeaturizerFit(users) ELSE EmptyState]
          /\ users_cache = users
          /\ lastPub = Some(users)
    /\ featurizer = 1
    /\ pc = [t \in Threads |-> "idle"]
    /\ loc = [t \in Threads |-> IF t = 1 THEN FitDoneFrame(FALSE) ELSE NoFrame]
    /\ fn = NoFn

NextCalls ==
    \E t \in Readers :
        \/ \E req \in CallRequests : RecCheck(t, req)
        \/ RecTarget(t)
        \/ RecPool(t)
        \/ RecRank(t)

SpecCalls == InitCalls /\ [][NextCalls]_vars

\* ---------------------------------------------------------------- fit and transform alone
\* tokens "d" (category), "f" (language), " a" (game, to be trimmed by fit)
tok_d == <<100>>

tok_f == <<102>>

tok_sa == <<32, 97>>

\* ids "w", "s"
id_w == <<119>>

id_s == <<115>>

\* a user with tokens in every list, none in ascending order
uW == User(id_w, None, None, Some(tok_d), None, None, None,
           <<tok_b, tok_a>>, <<tok_f, tok_e>>, <<tok_d, tok_c>>, <<tok_f>>, <<>>, <<>>)

\* a user whose tokens carry blanks, an empty token and a repeated token
uS == User(id_s, None, None, None, None, None, None,
           <<tok_sa, <<>>, tok_b, tok_b>>, <<>>, <<tok_c>>, <<tok_e, tok_e>>, <<>>, <<>>)

\* a user whose only token carries a blank
id_u == <<117>>

uU == User(id_u, None, None, None, None, None, None,
           <<tok_sa>>, <<>>, <<>>, <<>>, <<>>, <<>>)

FitUsers == {uT, uX, uK, uW, uS}

\* the injective sequences over S of length n
InjSeqs(S, n) ==
    {f \in [1..n -> S] : \A i, j \in 1..n : i # j => f[i] # f[j]}

\* the populations of the transform harness: up to two different users, in every order
FitPopulations ==
    InjSeqs(FitUsers, 0) \cup InjSeqs(FitUsers, 1) \cup InjSeqs(FitUsers, 2)
        \cup {<<uU>>, <<uT, uU>>}

\* the users given to transform, of the population or not
TransformUsers == {uT, uX, uY, uZ, uN, uK, uW, uS, uP, uQ, uU}

InitTransform ==
    /\ heap = [g \in FitThreads |-> EmptyState]
    /\ featurizer = 0
    /\ users_cache = <<>>
    /\ pc = [t \in Threads |-> "idle"]
    /\ loc = [t \in Threads |-> NoFrame]
    /\ lastPub = None
    /\ fn \in { [op |-> "transform", users |-> us, user |-> u, out |-> None] :
                   us \in FitPopulations, u \in TransformUsers }

\* f = Featurizer().fit(users); f.transform(user)
ApplyTransform ==
    /\ fn.op = "transform" /\ IsNone(fn.out)
    /\ fn' = [fn EXCEPT !.out = Some([st |-> FeaturizerFit(fn.users),
                                      facets |-> TransformFacets(FeaturizerFit(fn.users), fn.user),
                                      vec |-> transform(FeaturizerFit(fn.users), fn.user)])]
    /\ UNCHANGED <<heap, featurizer, users_cache, pc, loc, lastPub>>

NextTransform == ApplyTransform

SpecTransform == InitTransform /\ [][NextTransform]_vars

\* ---------------------------------------------------------------- fit on two orderings
Reverse(xs) == [i \in 1..Len(xs) |-> xs[Len(xs) + 1 - i]]

\* the user with the tokens of each of its lists in the opposite order
ReverseTokens(u) ==
    [u EXCEPT !.favorite_games = Reverse(@), !.languages = Reverse(@),
              !.preference_categories = Reverse(@), !.preference_languages = Reverse(@)]

\* the populations of three different users, each paired with every
\* ordering of the same users, their token lists as they are or reversed
OrderPairs ==
    { [users |-> us, other |-> vs] :
         us \in InjSeqs(FitUsers, 3),
         vs \in InjSeqs(FitUsers \cup {ReverseTokens(u) : u \in FitUsers}, 3) }

SameUsers(us, vs) ==
    /\ Len(us) = Len(vs)
    /\ \A i \in 1..Len(us) : \E j \in 1..Len(vs) : vs[j] \in {us[i], ReverseTokens(us[i])}
    /\ \A i, j \in 1..Len(vs) : i # j => vs[i].id # vs[j].id

InitFitOrder ==
    /\ heap = [g \in FitThreads |-> EmptyState]
    /\ featurizer = 0
    /\ users_cache = <<>>
    /\ pc = [t \in Threads |-> "idle"]
    /\ loc = [t \in Threads |-> NoFrame]
    /\ lastPub = None
    /\ fn \in { [op |-> "fit", users |-> pr.users, other |-> pr.other, out |-> None] :
                   pr \in {x \in OrderPairs : SameUsers(x.users, x.other)} }

\* Featurizer().fit(users) and Featurizer().fit(other)
ApplyFit ==
    /\ fn.op = "fit" /\ IsNone(fn.out)
    /\ fn' = [fn EXCEPT !.out = Some([one |-> FeaturizerFit(fn.users),
                                      two |-> FeaturizerFit(fn.other)])]
    /\ UNCHANGED <<heap, featurizer, users_cache, pc, loc, lastPub>>

NextFitOrder == ApplyFit

SpecFitOrder == InitFitOrder /\ [][NextFitOrder]_vars

\* ---------------------------------------------------------------- rocchio_query alone
\* the normalized vector with the weight 1.0 at each index of idxs
UnitVector(idxs) == _l2_normalize_sparse([k \in idxs |-> Scale])

\* the sparse vectors over the indices 0, 1, 2, the empty one included
RocchioVectors == {UnitVector(idxs) : idxs \in SUBSET {0, 1, 2}}

\* a centroid argument: None or a vector
RocchioCentroids == {None} \cup {Some(v) : v \in RocchioVectors}

InitRocchio ==
    /\ heap = [g \in FitThreads |-> EmptyState]
    /\ featurizer = 0
    /\ users_cache = <<>>
    /\ pc = [t \in Threads |-> "idle"]
    /\ loc = [t \in Threads |-> NoFrame]
    /\ lastPub = None
    /\ fn \in { [op |-> "rocchio", q_base |-> q, lbar |-> l, dbar |-> d,
                 alpha |-> a, beta |-> b, gamma |-> g, out |-> None] :
                   q \in RocchioVectors, l \in RocchioCentroids, d \in RocchioCentroids,
                   a \in {alpha, alpha \div 2}, b \in {0, beta}, g \in {0, gamma} }

\* rocchio_query(q_base, lbar, dbar, alpha, beta, gamma)
ApplyRocchio ==
    /\ fn.op = "rocchio" /\ IsNone(fn.out)
    /\ fn' = [fn EXCEPT !.out = Some(rocchio_query(fn.q_base, fn.lbar, fn.dbar,
                                                   fn.alpha, fn.beta, fn.gamma))]
    /\ UNCHANGED <<heap, featurizer, users_cache, pc, loc, lastPub>>

NextRocchio == ApplyRocchio

SpecRocchio == InitRocchio /\ [][NextRocchio]_vars

\* ---------------------------------------------------------------- metrics.py
\* xs[:n], n >= 0
Prefix(xs, n) == SubSeq(xs, 1, IF n < Len(xs) THEN n ELSE Len(xs))

\* sum(1 for uid in xs if uid in relevant)
RECURSIVE CountIn(_, _)
CountIn(xs, relevant) ==
    IF Len(xs) = 0 THEN 0
    ELSE (IF Head(xs) \in relevant THEN 1 ELSE 0) + CountIn(Tail(xs), relevant)

\* the value of a call that raised ZeroDivisionError (every metric is >= 0)
ZeroDivisionError == 0 - 1

\* n / d of two ints; Python raises ZeroDivisionError when d = 0
Ratio(n, d) == IF d = 0 THEN ZeroDivisionError ELSE FDiv(n * Scale, d * Scale)

\* precision_at_k dividing by k instead of effective_k
precision_at_kOverK(recommended, relevant, k) ==
    LET effective_k == IF k < Len(recommended) THEN k ELSE Len(recommended)
    IN  IF k = 0 \/ effective_k = 0 THEN 0
        ELSE Ratio(CountIn(Prefix(recommended, effective_k), relevant), k)

precision_at_k(recommended, relevant, k) ==
    LET effective_k == IF k < Len(recommended) THEN k ELSE Len(recommended)
    IN  IF k = 0 \/ effective_k = 0 THEN 0
        ELSE Ratio(CountIn(Prefix(recommended, effective_k), relevant), effective_k)

recall_at_k(recommended, relevant, k) ==
    IF Cardinality(relevant) = 0 THEN 0
    ELSE Ratio(CountIn(Prefix(recommended, k), relevant), Cardinality(relevant))

\* math.log2(n), for n in 2..5
Log2(n) ==
    CASE n = 2 -> Scale
      [] n = 3 -> (15850 * Scale) \div 10000
      [] n = 4 -> 2 * Scale
      [] n = 5 -> (23219 * Scale) \div 10000

\* dcg_at_k: the loop over enumerate(ranking[:k_val], start=1), from rank i on
RECURSIVE DcgFrom(_, _, _)
DcgFrom(ranking, rel_set, i) ==
    IF i > Len(ranking) THEN 0
    ELSE (IF ranking[i] \in rel_set THEN FDiv(Scale, Log2(i + 1)) ELSE 0)
         + DcgFrom(ranking, rel_set, i + 1)

dcg_at_k(ranking, rel_set, k_val) == DcgFrom(Prefix(ranking, k_val), rel_set, 1)

\* idcg_at_k: the loop over range(1, min(num_relevant, k_val) + 1), from i on
RECURSIVE IdcgFrom(_, _)
IdcgFrom(i, n) ==
    IF i > n THEN 0 ELSE FDiv(Scale, Log2(i + 1)) + IdcgFrom(i + 1, n)

idcg_at_k(num_relevant, k_val) ==
    IF num_relevant = 0 THEN 0
    ELSE IdcgFrom(1, IF num_relevant < k_val THEN num_relevant ELSE k_val)

ndcg_at_k(recommended, relevant, k) ==
    IF Cardinality(relevant) = 0 THEN 0
    ELSE IF idcg_at_k(Cardinality(relevant), k) = 0 THEN 0
    ELSE FDiv(dcg_at_k(recommended, relevant, k), idcg_at_k(Cardinality(relevant), k))

hit_rate_at_k(recommended, relevant, k) ==
    IF Cardinality(relevant) = 0 THEN 0
    ELSE IF CountIn(Prefix(recommended, k), relevant) > 0 THEN Scale ELSE 0

_normalize_recommendations(recommended) == DedupFrom(SeqFilterNonEmpty(recommended), {})

\* calculate_metrics(recommendations, ground_truth, [k])
calculate_metrics(recommendations, ground_truth, k) ==
    LET normalized == _normalize_recommendations(recommendations)
    IN  [precision |-> precision_at_k(normalized, ground_truth, k),
         recall |-> recall_at_k(normalized, ground_truth, k),
         ndcg |-> ndcg_at_k(normalized, ground_truth, k),
         hit_rate |-> hit_rate_at_k(normalized, ground_truth, k)]

\* calculate_product_metrics dividing without the effective_k > 0 test
calculate_product_metricsNoGuard(recommendations, mutual_accepts, chat_starts, k) ==
    LET normalized == _normalize_recommendations(recommendations)
        effective_k == IF k < Len(normalized) THEN k ELSE Len(normalized)
        top_k == Range(Prefix(normalized, effective_k))
    IN  [mutual_accept_rate |-> Ratio(Cardinality(top_k \cap mutual_accepts), effective_k),
         chat_start_rate |-> Ratio(Cardinality(top_k \cap chat_starts), effective_k)]

\* calculate_product_metrics(recommendations, mutual_accepts, chat_starts, [k])
calculate_product_metrics(recommendations, mutual_accepts, chat_starts, k) ==
    LET normalized == _normalize_recommendations(recommendations)
        effective_k == IF k < Len(normalized) THEN k ELSE Len(normalized)
        top_k == Range(Prefix(normalized, effective_k))
    IN  [mutual_accept_rate |-> IF effective_k > 0
                                THEN Ratio(Cardinality(top_k \cap mutual_accepts), effective_k)
                                ELSE 0,
         chat_start_rate |-> IF effective_k > 0
                             THEN Ratio(Cardinality(top_k \cap chat_starts), effective_k)
                             ELSE 0]

\* the ids of a recommendation list: "", "x", "y", "z"
MetricIds == {<<>>, id_x, id_y, id_z}

\* the cut-offs K
MetricKs == 0..3 \cup {5}

\* the recommendation lists of up to three ids, empty and repeated ids included
MetricLists ==
    UNION {[1..n -> MetricIds] : n \in 0..3}

InitMetrics ==
    /\ heap = [g \in FitThreads |-> EmptyState]
    /\ featurizer = 0
    /\ users_cache = <<>>
    /\ pc = [t \in Threads |-> "idle"]
    /\ loc = [t \in Threads |-> NoFrame]
    /\ lastPub = None
    /\ fn \in { [op |-> "metrics", recommended |-> r, relevant |-> g, other |-> h,
                 k |-> k, out |-> None] :
                   r \in MetricLists, g \in SUBSET {id_x, id_y}, h \in {{}, {id_y}},
                   k \in MetricKs }

\* each metric function applied to the list as it is given
ApplyMetrics ==
    /\ fn.op = "metrics" /\ IsNone(fn.out)
    /\ fn' = [fn EXCEPT !.out =
                 Some([precision |-> precision_at_k(fn.recommended, fn.relevant, fn.k),
                       recall |-> recall_at_k(fn.recommended, fn.relevant, fn.k),
                       ndcg |-> ndcg_at_k(fn.recommended, fn.relevant, fn.k),
                       hit_rate |-> hit_rate_at_k(fn.recommended, fn.relevant, fn.k),
                       all |-> calculate_metrics(fn.recommended, fn.relevant, fn.k),
                       product |-> calculate_product_metrics(fn.recommended, fn.relevant,
                                                             fn.other, fn.k)])]
    /\ UNCHANGED <<heap, featurizer, users_cache, pc, loc, lastPub>>

NextMetrics == ApplyMetrics

SpecMetrics == InitMetrics /\ [][NextMetrics]_vars

\* ---------------------------------------------------------------- fit after fit
\* the populations of the fits of one recommender, called one after the other
RefitPopulations == { <<>>, <<uX>>, <<uW>>, <<uK, uT>>, <<uS, uW>>, <<uT, uX, uK>> }

\* fit(users) called when the fit before it has returned
FitAfterReturn(t, users) == ~FitRunning /\ FitNew(t, users)

NextRefit ==
    \E t \in FitThreads :
        \/ \E users \in RefitPopulations : FitAfterReturn(t, users)
        \/ FitStepOffsets(t)
        \/ FitStepGames(t)
        \/ FitStepCategories(t)
        \/ FitStepLanguages(t)
        \/ FitStepDim(t)
        \/ FitPublish(t)
        \/ FitReturn(t)

SpecRefit == Init /\ [][NextRefit]_vars

\* ---------------------------------------------------------------- build_centroid alone
\* the ids argument: up to three ids out of "", "x", "y", "z", repeats included
CentroidIds == UNION {[1..n -> MetricIds] : n \in 0..3}

\* the keys and the vectors of the pool argument
CentroidKeys == {<<>>, id_x, id_y}

CentroidVectors == {<<>>, UnitVector({0}), UnitVector({0, 1})}

CentroidEntries == {[id |-> k, vec |-> v] : k \in CentroidKeys, v \in CentroidVectors}

\* the pool argument: a dict of up to two keys
CentroidPools ==
    {<<>>} \cup {<<e>> : e \in CentroidEntries}
           \cup {p \in CentroidEntries \X CentroidEntries : p[1].id # p[2].id}

InitCentroid ==
    /\ heap = [g \in FitThreads |-> EmptyState]
    /\ featurizer = 0
    /\ users_cache = <<>>
    /\ pc = [t \in Threads |-> "idle"]
    /\ loc = [t \in Threads |-> NoFrame]
    /\ lastPub = None
    /\ fn \in { [op |-> "centroid", ids |-> ids, pool |-> pool, out |-> None] :
                   ids \in CentroidIds, pool \in CentroidPools }

\* build_centroid(ids, pool)
ApplyCentroid ==
    /\ fn.op = "centroid" /\ IsNone(fn.out)
    /\ fn' = [fn EXCEPT !.out = Some(build_centroid(fn.ids, fn.pool))]
    /\ UNCHANGED <<heap, featurizer, users_cache, pc, loc, lastPub>>

NextCentroid == ApplyCentroid

SpecCentroid == InitCentroid /\ [][NextCentroid]_vars

\* ---------------------------------------------------------------- claims
\* the calls of recommend that have returned
Returned(t) == loc[t].op = "recommend" /\ loc[t].done

\* a Featurizer state is fully built
FullyBuilt(st) ==
    /\ st.dim = Cardinality(DOMAIN st.vocab_games) + Cardinality(DOMAIN st.vocab_categories)
                   + Cardinality(DOMAIN st.vocab_languages)
    /\ \A tok \in DOMAIN st.vocab_games : st.vocab_games[tok] \in 0..(st.dim - 1)
    /\ \A tok \in DOMAIN st.vocab_categories : st.vocab_categories[tok] \in 0..(st.dim - 1)
    /\ \A tok \in DOMAIN st.vocab_languages : st.vocab_languages[tok] \in 0..(st.dim - 1)

\* C1: a recommend call transforms its target and all of its candidates with
\* one and the same Featurizer generation, also when fit runs concurrently.
C1_OneGenerationPerCall ==
    \A t \in Readers :
        loc[t].op = "recommend" => \A g \in loc[t].genC : g = loc[t].genT

\* C2: in every state, every intermediate step of a running fit included, the
\* Featurizer reachable through self.featurizer is absent or fully built: dim
\* is the sum of the three vocabulary sizes and every index lies in [0, dim).
C2_PublishedFullyBuilt ==
    featurizer # 0 => FullyBuilt(heap[featurizer])

\* a generation is published while another fit has filled the vocabularies of
\* its own, still unpublished object and not yet set its dim
C2_Witness ==
    /\ featurizer # 0
    /\ \E t \in FitThreads :
          /\ pc[t] = "fit_dim"
          /\ t # featurizer
          /\ ~FullyBuilt(heap[t])

\* C3: once all fit calls have completed, the active generation is the one
\* built from the population of the fit that assigned self.featurizer last,
\* a recommend call started after that point uses exactly that generation,
\* and no fit, overtaken or not, has raised.
C3_LastPublisherWins ==
    /\ (~FitRunning /\ ~IsNone(lastPub)) =>
          /\ featurizer # 0
          /\ heap[featurizer] = FeaturizerFit(lastPub[1])
          /\ \A t \in Readers :
                (loc[t].op = "recommend" /\ loc[t].quiet) =>
                    /\ ~loc[t].sawNone
                    /\ loc[t].genT \in {0, featurizer}
                    /\ loc[t].genC \subseteq {featurizer}
    /\ \A t \in FitThreads : ~loc[t].raised

\* both fits have completed, the second one was overtaken by the first, and a
\* recommend call started afterwards has ranked candidates with generation 1
C3_Witness ==
    /\ \A t \in FitThreads : loc[t].op = "fit" /\ loc[t].done
    /\ featurizer = 1
    /\ \E t \in Readers :
          /\ Returned(t) /\ loc[t].quiet
          /\ loc[t].genT = 1 /\ loc[t].genC = {1}
          /\ Len(loc[t].result) > 0

\* C4: the recommender starts UNFIT; a fit call that completes leaves it FIT;
\* no step takes a FIT recommender back to UNFIT; a step of recommend leaves
\* self.featurizer and the Featurizer objects as they are.
C4_Step ==
    /\ featurizer # 0 => featurizer' # 0
    /\ \A t \in FitThreads : (~loc[t].done /\ loc'[t].done) => featurizer' # 0
    /\ \A t \in Readers :
          (loc'[t] # loc[t] \/ pc'[t] # pc[t]) => (featurizer' = featurizer /\ heap' = heap)

C4_FitIsAbsorbing == (featurizer = 0) /\ [][C4_Step]_vars

\* both fits have completed, the one that published last was given the empty
\* population, the recommender is FIT with dim 0, and a recommend call entered
\* afterwards has passed line 53 and returned
C4_Witness ==
    /\ \A t \in FitThreads : loc[t].op = "fit" /\ loc[t].done
    /\ featurizer # 0
    /\ lastPub = Some(<<>>)
    /\ heap[featurizer].dim = 0
    /\ \E t \in Readers : Returned(t) /\ loc[t].quiet /\ ~loc[t].sawNone

\* C5: a recommend call that returns while the recommender is still UNFIT
\* returns the empty list, raises nothing and leaves the recommender UNFIT.
C5_Step ==
    \A t \in Readers :
        (featurizer = 0 /\ loc'[t] # loc[t] /\ loc'[t].done) =>
            /\ loc'[t].result = <<>>
            /\ ~loc'[t].raised
            /\ featurizer' = 0

C5_UnfitReturnsEmpty == [][C5_Step]_vars

\* a recommend call has returned the empty list on the UNFIT recommender
\* while a fit is about to publish the first generation
C5_Witness ==
    /\ featurizer = 0
    /\ \E t \in FitThreads : pc[t] = "fit_publish"
    /\ \E t \in Readers :
          Returned(t) /\ loc[t].sawNone /\ loc[t].result = <<>> /\ ~loc[t].raised

\* C6: every id returned by recommend is the id of a candidate of the input
\* list that is not the target and passes the eligibility predicate of the
\* target; the ids of the target, of the candidate rejected on gender (m) and
\* of the candidate rejected on age (o) never appear.
C6_OnlyEligibleCandidates ==
    \A t \in Readers :
        Returned(t) =>
            \A i \in 1..Len(loc[t].result) :
                /\ \E j \in 1..Len(loc[t].candidates) :
                      /\ loc[t].candidates[j].id = loc[t].result[i].id
                      /\ loc[t].candidates[j].id # loc[t].target.id
                      /\ _ok(loc[t].target, loc[t].candidates[j])
                /\ loc[t].result[i].id \notin {loc[t].target.id, id_m, id_o}

\* a call whose candidate list holds the target and a candidate of the wrong
\* gender (or one outside the age window) has returned entries
C6_Witness ==
    \E t \in Readers :
        /\ Returned(t) /\ Len(loc[t].result) > 0
        /\ \E j \in 1..Len(loc[t].candidates) : ~_ok(loc[t].target, loc[t].candidates[j])

\* the filter has been applied to fn.probe and fn.u
Filtered == fn.op = "elig" /\ ~IsNone(fn.out)

\* C7: the age rule rejects a candidate only when the target gives both a
\* minimum and a maximum preferred age, the candidate's age is known and that
\* age lies outside [min, max]; with one bound only, it passes the candidate.
C7_AgeRuleNeedsBothBounds ==
    Filtered =>
        (~fn.out[1].age <=>
            /\ ~IsNone(fn.probe.preference_age_min)
            /\ ~IsNone(fn.probe.preference_age_max)
            /\ ~IsNone(fn.u.age)
            /\ \/ fn.u.age[1] < fn.probe.preference_age_min[1]
               \/ fn.u.age[1] > fn.probe.preference_age_max[1])

\* a == b up to the case of ASCII letters
EqIgnoreCase(a, b) ==
    /\ Len(a) = Len(b)
    /\ \A i \in 1..Len(a) : Lower(<<a[i]>>) = Lower(<<b[i]>>)

\* the preferred gender, trimmed and lower-cased ("" when there is none)
NormalPreference(probe) ==
    IF IsNone(probe.preference_gender) THEN <<>>
    ELSE Lower(Strip(probe.preference_gender[1]))

\* C8: the gender rule rejects a candidate exactly when the target's
\* preferred gender, trimmed and lower-cased, is neither empty nor "any", the
\* candidate's gender is known (not None, not "") and it does not match that
\* preference case-insensitively; the predicate rejects whenever the rule does.
C8_GenderRule ==
    Filtered =>
        /\ ~fn.out[1].gender <=>
              /\ NormalPreference(fn.probe) \notin {<<>>, s_any}
              /\ ~IsNone(fn.u.gender) /\ fn.u.gender[1] # <<>>
              /\ ~EqIgnoreCase(fn.u.gender[1], NormalPreference(fn.probe))
        /\ ~fn.out[1].gender => ~fn.out[1].ok

\* the preference "F " has passed the candidate of gender "f"; or it has
\* rejected the candidate of gender "m"
C8_Witness ==
    /\ Filtered
    /\ fn.probe.preference_gender = Some(<<70, 32>>)
    /\ \/ fn.u.gender = Some(<<102>>) /\ fn.out[1].gender
       \/ fn.u.gender = Some(<<109>>) /\ ~fn.out[1].gender

NonIncreasing(xs) ==
    \A i \in 1..(Len(xs) - 1) : xs[i].score >= xs[i + 1].score

\* C9: entries of equal score are ordered by ascending candidate id, in the
\* list of score_against_pool and in the list recommend returns.
C9_TiesByAscendingId ==
    \A t \in Readers :
        Returned(t) =>
            \A i, j \in 1..Len(loc[t].scores) :
                (i < j /\ loc[t].scores[i].score = loc[t].scores[j].score) =>
                    StrLT(loc[t].scores[i].id, loc[t].scores[j].id)

\* C10: the scores of the list of score_against_pool and of the list that
\* recommend returns are non-increasing, in strict and in feedback mode.
C10_ScoresNonIncreasing ==
    \A t \in Readers :
        Returned(t) => NonIncreasing(loc[t].scores) /\ NonIncreasing(loc[t].result)

\* a feedback call has returned two entries of different scores, the first
\* of which was not the first entry of the pool
C10_Witness ==
    \E t \in Readers :
        /\ Returned(t) /\ loc[t].mode # "strict"
        /\ Len(loc[t].result) >= 2
        /\ loc[t].result[1].score > loc[t].result[2].score
        /\ loc[t].result[1].id # loc[t].pool_vecs[1].id

\* C11: a recommend call given top_k >= 0 returns at most top_k entries,
\* whatever the target, the candidate list and the mode.
C11_AtMostTopK ==
    \A t \in Readers :
        (Returned(t) /\ loc[t].top_k >= 0) => Len(loc[t].result) <= loc[t].top_k

\* a call with top_k = 1 has ranked three candidates and returned one entry;
\* or a call with top_k = 0 has ranked candidates and returned none
C11_Witness ==
    \E t \in Readers :
        /\ Returned(t) /\ Len(loc[t].scores) = 3
        /\ \/ loc[t].top_k = 1 /\ Len(loc[t].result) = 1
           \/ loc[t].top_k = 0 /\ Len(loc[t].result) = 0

\* C12: on one fitted generation the list a recommend call returns is decided
\* by its target, candidate list, top_k and mode alone, whatever calls came
\* before it: it is the list that recommend gives on these arguments and this
\* generation when run on its own, so two calls with identical arguments
\* return identical lists (same ids, same order, same scores).
C12_ResultDecidedByArguments ==
    \A t \in Readers :
        (Returned(t) /\ ~loc[t].sawNone /\ ~loc[t].raised) =>
            loc[t].result = recommend(heap[featurizer], loc[t].target, loc[t].candidates,
                                      loc[t].top_k, loc[t].mode)

\* a feedback call has returned two entries of equal score, whose order is
\* the order of the candidate list
C12_Witness ==
    \E t \in Readers :
        /\ Returned(t) /\ loc[t].mode = "feedback"
        /\ Len(loc[t].result) = 2
        /\ loc[t].result[1].score = loc[t].result[2].score
        /\ loc[t].result[1].id # loc[t].result[2].id

\* the eligible candidates of a call all have an empty vector under st
NoEligibleVector(st, target, candidates) ==
    LET uf == FilterCandidates(target, candidates)
    IN  \A i \in 1..Len(uf) : DOMAIN transform(st, uf[i]) = {}

\* C13: on a fitted recommender, a call whose target has no token of the
\* fitted vocabularies (empty target vector) returns the empty list and does
\* not raise, and so does a call none of whose eligible candidates has a
\* token of the fitted vocabularies (empty pool).
C13_EmptyVectorOrPoolReturnsEmpty ==
    \A t \in Readers :
        (/\ Returned(t) /\ ~loc[t].sawNone
         /\ (DOMAIN transform(heap[featurizer], loc[t].target) = {}
               \/ NoEligibleVector(heap[featurizer], loc[t].target, loc[t].candidates)))
        => (loc[t].result = <<>> /\ ~loc[t].raised)

\* a call whose target has no vector, although the vocabularies are not
\* empty and an eligible candidate has one, has returned
C13_Witness ==
    \E t \in Readers :
        /\ Returned(t) /\ ~loc[t].sawNone
        /\ heap[featurizer].dim > 0
        /\ DOMAIN transform(heap[featurizer], loc[t].target) = {}
        /\ ~NoEligibleVector(heap[featurizer], loc[t].target, loc[t].candidates)
        /\ loc[t].top_k > 0

\* a call whose target has a vector has gone through the pool loop, found no
\* candidate vector and returned
C13_WitnessEmptyPool ==
    \E t \in Readers :
        /\ Returned(t) /\ loc[t].i > 1
        /\ DOMAIN loc[t].q_base_all # {}
        /\ Len(loc[t].pool_vecs) = 0 /\ loc[t].result = <<>>

\* C14: on a fitted recommender a call with a mode other than "strict", an
\* unrecognized string included, returns what the call with mode "feedback"
\* returns on the same arguments and generation and does not raise; with
\* "strict" the candidates are scored against the target's base vector as
\* transform gave it.
C14_OtherModesAreFeedback ==
    \A t \in Readers :
        (Returned(t) /\ ~loc[t].sawNone) =>
            /\ ~loc[t].raised
            /\ loc[t].mode # "strict" =>
                  loc[t].result = recommend(heap[featurizer], loc[t].target,
                                            loc[t].candidates, loc[t].top_k, "feedback")
            /\ (loc[t].mode = "strict" /\ Len(loc[t].pool_vecs) > 0) =>
                  loc[t].scores = score_against_pool(
                                      transform(heap[featurizer], loc[t].target),
                                      loc[t].pool_vecs, None)

\* a call with mode "foo" has returned a list that the strict call on the
\* same arguments does not return
C14_Witness ==
    \E t \in Readers :
        /\ Returned(t) /\ loc[t].mode = "foo"
        /\ Len(loc[t].result) >= 2
        /\ loc[t].result # recommend(heap[featurizer], loc[t].target,
                                     loc[t].candidates, loc[t].top_k, "strict")

\* the ids of ids that are keys of pool
RECURSIVE KeepPoolIds(_, _)
KeepPoolIds(ids, pool) ==
    IF Len(ids) = 0 THEN <<>>
    ELSE IF IsNone(PoolGet(pool, Head(ids))) THEN KeepPoolIds(Tail(ids), pool)
    ELSE <<Head(ids)>> \o KeepPoolIds(Tail(ids), pool)

\* the pool of a call: eligible, non-target candidates with a non-empty vector
CallPool(st, target, candidates) == PoolLoop(st, FilterCandidates(target, candidates), <<>>)

\* the target with the liked and disliked ids outside the pool removed
InPoolFeedback(st, target, candidates) ==
    WithFeedback(target, KeepPoolIds(target.liked, CallPool(st, target, candidates)),
                 KeepPoolIds(target.disliked, CallPool(st, target, candidates)))

Ids(xs) == [i \in 1..Len(xs) |-> xs[i].id]

\* a returned call in feedback mode (any mode but "strict") on a fitted recommender
FeedbackReturned(t) ==
    Returned(t) /\ ~loc[t].sawNone /\ ~loc[t].raised /\ loc[t].mode # "strict"

C18_Step ==
    \A t \in Readers :
        pc[t] # "idle" =>
            /\ loc'[t].target = loc[t].target
            /\ loc'[t].candidates = loc[t].candidates
            /\ heap' = heap /\ featurizer' = featurizer /\ users_cache' = users_cache

C18_RecommendIsReadOnly == [][C18_Step]_vars

\* a call has dropped candidates in its filter, built a pool of the rest,
\* ranked it in feedback mode and returned entries
C18_Witness ==
    \E t \in Readers :
        /\ Returned(t) /\ loc[t].mode = "feedback"
        /\ Len(loc[t].users_filtered) > 0
        /\ Len(loc[t].users_filtered) < Len(loc[t].candidates)
        /\ Len(loc[t].pool_vecs) < Len(loc[t].users_filtered)
        /\ Len(loc[t].result) > 0

\* transform has been applied to fn.user under the fit of fn.users
Transformed == fn.op = "transform" /\ ~IsNone(fn.out)

\* C16: for every fitted Featurizer and every user, of the fit population or
\* not, every index of transform(user) lies in [0, dim).
C16_IndexBound ==
    Transformed =>
        \A k \in DOMAIN fn.out[1].vec : 0 <= k /\ k < fn.out[1].st.dim

\* a user outside the fit population, one of whose tokens is unknown to the
\* vocabularies, has a vector that holds the last index, dim - 1
C16_Witness ==
    /\ Transformed
    /\ \A i \in 1..Len(fn.users) : fn.users[i].id # fn.user.id
    /\ tok_f \in Range(fn.user.languages)
    /\ tok_f \notin DOMAIN fn.out[1].st.vocab_languages
    /\ fn.out[1].st.dim - 1 \in DOMAIN fn.out[1].vec

\* fit has been applied to fn.users and to its reordering fn.other
FittedTwice == fn.op = "fit" /\ ~IsNone(fn.out)

\* C17: Featurizer.fit on two orderings of the same population, the tokens
\* inside each user's lists in any order, gives the same vocabularies (the
\* same index for every token), the same offsets and the same dim.
C17_FitIgnoresOrder ==
    FittedTwice => fn.out[1].one = fn.out[1].two

\* the two orderings meet the game tokens in different orders of first
\* occurrence, and the vocabulary of games has at least two tokens
C17_Witness ==
    /\ FittedTwice
    /\ _dedup_keep_order(StripAll(RawGames(fn.users)))
          # _dedup_keep_order(StripAll(RawGames(fn.other)))
    /\ Cardinality(DOMAIN fn.out[1].one.vocab_games) >= 2
    /\ Cardinality(DOMAIN fn.out[1].one.vocab_languages) >= 2

\* C19: with beta = gamma = 0, rocchio_query(q, L, D, alpha, 0, 0) is
\* normalize(alpha * q) for every q and every L and D, present or missing:
\* the same entries with the same values, no entry added by L or D.
C19_RocchioReduction ==
    (fn.op = "rocchio" /\ ~IsNone(fn.out) /\ fn.beta = 0 /\ fn.gamma = 0) =>
        fn.out[1] = _l2_normalize_sparse([k \in DOMAIN fn.q_base |->
                                             FMul(fn.alpha, fn.q_base[k])])

\* C20: every metric function (precision@K, recall@K, NDCG@K, hit_rate@K,
\* directly or through calculate_metrics, and the two product metrics) gives
\* for a list with empty or repeated ids the result it gives for the list
\* with the empty ids dropped and the repeats collapsed to the first.
C20_MetricsNormalizeInput ==
    (fn.op = "metrics" /\ ~IsNone(fn.out)) =>
        LET normalized == _normalize_recommendations(fn.recommended)
        IN  /\ fn.out[1].precision = precision_at_k(normalized, fn.relevant, fn.k)
            /\ fn.out[1].recall = recall_at_k(normalized, fn.relevant, fn.k)
            /\ fn.out[1].ndcg = ndcg_at_k(normalized, fn.relevant, fn.k)
            /\ fn.out[1].hit_rate = hit_rate_at_k(normalized, fn.relevant, fn.k)
            /\ fn.out[1].all = calculate_metrics(normalized, fn.relevant, fn.k)
            /\ fn.out[1].product = calculate_product_metrics(normalized, fn.relevant,
                                                             fn.other, fn.k)

\* a call of the metric functions that has returned
MetricsReturned == fn.op = "metrics" /\ ~IsNone(fn.out)

\* min(K, |recommended|)
EffectiveK == IF fn.k < Len(fn.recommended) THEN fn.k ELSE Len(fn.recommended)

\* the positions of the first n entries that hold a relevant id
RelevantAt(n) == {i \in 1..n : fn.recommended[i] \in fn.relevant}

\* C21: precision_at_k is the number of entries among the first
\* effectiveK = min(K, |recommended|) that are relevant ids, divided by
\* effectiveK, and 0 when K = 0 or effectiveK = 0; on [x, z, y] with relevant
\* {x, y} and K = 2 it is 1/2.
C21_PrecisionOverEffectiveK ==
    MetricsReturned =>
        /\ fn.out[1].precision =
               IF fn.k = 0 \/ EffectiveK = 0 THEN 0
               ELSE (Cardinality(RelevantAt(EffectiveK)) * Scale) \div EffectiveK
        /\ (fn.recommended = <<id_x, id_z, id_y>> /\ fn.relevant = {id_x, id_y} /\ fn.k = 2)
               => fn.out[1].precision = Scale \div 2

\* a list shorter than K with a relevant entry has been scored
C21_Witness ==
    /\ MetricsReturned
    /\ fn.recommended = <<id_x, id_z>> /\ fn.relevant = {id_x, id_y} /\ fn.k = 5
    /\ fn.out[1].precision = Scale \div 2

\* C22: recall_at_k is the number of entries among the first
\* min(K, |recommended|) that are relevant ids, divided by |relevant|, is 0
\* when the relevant set is empty, and never exceeds 1; on [x, z, y] with
\* relevant {x, y} and K = 2 it is 1/2.
C22_RecallAtMostOne ==
    MetricsReturned =>
        /\ fn.out[1].recall =
               IF fn.relevant = {} THEN 0
               ELSE (Cardinality(RelevantAt(EffectiveK)) * Scale) \div Cardinality(fn.relevant)
        /\ fn.out[1].recall <= Scale
        /\ (fn.recommended = <<id_x, id_z, id_y>> /\ fn.relevant = {id_x, id_y} /\ fn.k = 2)
               => fn.out[1].recall = Scale \div 2

\* the six metrics of a returned call, the product metrics last
RelevanceMetrics ==
    {fn.out[1].precision, fn.out[1].recall, fn.out[1].ndcg, fn.out[1].hit_rate}

ProductMetrics ==
    {fn.out[1].product.mutual_accept_rate, fn.out[1].product.chat_start_rate}

\* C23: with K = 0 or an empty recommendation list each of the six metrics
\* returns 0.0 and raises nothing, and so do the four relevance metrics
\* with an empty relevant set; hit_rate_at_k([], {x}, 5) = 0.0.
C23_ZeroWithoutRaising ==
    MetricsReturned =>
        /\ (fn.k = 0 \/ fn.recommended = <<>>) => RelevanceMetrics \cup ProductMetrics = {0}
        /\ fn.relevant = {} => RelevanceMetrics = {0}
        /\ ZeroDivisionError \notin RelevanceMetrics \cup ProductMetrics

\* hit_rate_at_k([], {x}, 5) has returned 0.0
C23_Witness ==
    /\ MetricsReturned
    /\ fn.recommended = <<>> /\ fn.relevant = {id_x} /\ fn.k = 5
    /\ fn.out[1].hit_rate = 0

\* the indices a vocabulary assigns
Indices(vocab) == {vocab[tok] : tok \in DOMAIN vocab}

\* a vocabulary numbers its tokens in ascending lexicographic order
Ascending(vocab) ==
    \A s, t \in DOMAIN vocab : StrLT(s, t) => vocab[s] < vocab[t]

\* C24: after fit the games take the indices [0, |games|), the categories
\* [|games|, |games| + |categories|) and the languages the rest up to dim,
\* each facet in ascending order of its trimmed tokens; no index is given
\* twice and dim is the sum of the three vocabulary sizes.
C24_IndexBijection ==
    Transformed =>
        LET st == fn.out[1].st
            g == Cardinality(DOMAIN st.vocab_games)
            c == Cardinality(DOMAIN st.vocab_categories)
            l == Cardinality(DOMAIN st.vocab_languages)
        IN  /\ st.dim = g + c + l
            /\ Indices(st.vocab_games) = 0..(g - 1)
            /\ Indices(st.vocab_categories) = g..(g + c - 1)
            /\ Indices(st.vocab_languages) = (g + c)..(st.dim - 1)
            /\ Ascending(st.vocab_games)
            /\ Ascending(st.vocab_categories)
            /\ Ascending(st.vocab_languages)
            /\ \A tok \in DOMAIN st.vocab_games \cup DOMAIN st.vocab_categories
                            \cup DOMAIN st.vocab_languages :
                   Strip(tok) = tok /\ Len(tok) > 0

\* a population with two tokens in every facet, listed out of order, was fitted
C24_Witness ==
    /\ Transformed
    /\ fn.users = <<uW, uT>>
    /\ fn.out[1].st.dim = 6
    /\ fn.out[1].st.vocab_languages[tok_f] = 5

\* the tokens a user lists as games, categories and languages
GameTokens(u) == Range(u.favorite_games)

CategoryTokens(u) ==
    (IF IsNone(u.favorite_category) THEN {} ELSE {u.favorite_category[1]})
        \cup Range(u.preference_categories)

LanguageTokens(u) == Range(u.languages) \cup Range(u.preference_languages)

\* C25: before normalization transform(user) has an entry exactly at the
\* indices of the user's tokens that are in the vocabulary of their facet,
\* each with the weight of the facet however often the token is listed; a
\* token that is not in the vocabulary adds no entry.
C25_PresenceWeights ==
    Transformed =>
        LET st == fn.out[1].st
            vec == fn.out[1].facets
        IN  /\ DOMAIN vec =
                   {st.vocab_games[tok] : tok \in GameTokens(fn.user) \cap DOMAIN st.vocab_games}
                   \cup {st.vocab_categories[tok] :
                            tok \in CategoryTokens(fn.user) \cap DOMAIN st.vocab_categories}
                   \cup {st.vocab_languages[tok] :
                            tok \in LanguageTokens(fn.user) \cap DOMAIN st.vocab_languages}
            /\ \A idx \in DOMAIN vec :
                   vec[idx] = IF idx < st.offset_categories THEN w_games
                              ELSE IF idx < st.offset_languages THEN w_categories
                              ELSE w_languages

\* a user whose favorite category is also a preferred category and whose
\* language is in both language lists, transformed after a fit that saw them
C25_Witness ==
    /\ Transformed
    /\ fn.user = uW /\ fn.users = <<uK, uW>>
    /\ fn.out[1].facets[fn.out[1].st.vocab_categories[tok_d]] = w_categories
    /\ fn.out[1].facets[fn.out[1].st.vocab_languages[tok_f]] = w_languages

\* the trimmed tokens of a list of raw tokens
Trimmed(raw) == {Strip(raw[i]) : i \in 1..Len(raw)}

\* a fit assigns self.featurizer: the generation it leaves is the one a fresh
\* recommender gets from the same population, holds no token of another
\* population, and is the generation held before if that came from the same
\* population
C26_Step ==
    \A t \in FitThreads :
        (pc[t] = "fit_publish" /\ pc'[t] = "fit_return") =>
            LET st == heap'[featurizer']
                users == loc[t].users
            IN  /\ st = FeaturizerFit(users)
                /\ DOMAIN st.vocab_games \subseteq Trimmed(RawGames(users))
                /\ DOMAIN st.vocab_categories \subseteq Trimmed(RawCategories(users))
                /\ DOMAIN st.vocab_languages \subseteq Trimmed(RawLanguages(users))
                /\ lastPub = Some(users) => (featurizer # 0 /\ st = heap[featurizer])

\* C26: the generation held after a fit depends only on the population of
\* that fit: after fit(A) and then fit(B) the vocabularies, offsets and dim
\* are those of a fresh recommender after fit(B), with no token that occurs
\* only in A, and fit(A) called twice leaves the state of fit(A) called once.
C26_RefitIsFresh == [][C26_Step]_vars

\* a second fit has returned and the generation it left lacks a game, a
\* category and a language of the generation before
C26_Witness ==
    /\ ~FitRunning
    /\ featurizer = 2 /\ loc[2].op = "fit" /\ loc[2].done
    /\ heap[2].dim > 0
    /\ DOMAIN heap[1].vocab_games \ DOMAIN heap[2].vocab_games # {}
    /\ DOMAIN heap[1].vocab_categories \ DOMAIN heap[2].vocab_categories # {}
    /\ DOMAIN heap[1].vocab_languages \ DOMAIN heap[2].vocab_languages # {}

\* a call of build_centroid that has returned
CentroidReturned == fn.op = "centroid" /\ ~IsNone(fn.out)

\* the ids of ids that are keys of pool
KeyIds == {fn.ids[i] : i \in 1..Len(fn.ids)} \cap {fn.pool[i].id : i \in 1..Len(fn.pool)}

\* the non-empty ids of ids that are keys of pool with a non-empty vector
VectorIds == {id \in KeyIds : Len(id) > 0 /\ DOMAIN PoolGet(fn.pool, id)[1] # {}}

\* the sum over the ids of S of the entry k of their pool vectors
RECURSIVE SumAt(_, _)
SumAt(S, k) ==
    IF S = {} THEN 0
    ELSE LET id == CHOOSE x \in S : TRUE
             v == PoolGet(fn.pool, id)[1]
         IN  (IF k \in DOMAIN v THEN v[k] ELSE 0) + SumAt(S \ {id}, k)

\* the normalized average of the pool vectors of the ids of S, each taken once
AverageOf(S) ==
    _l2_normalize_sparse(
        [k \in UNION {DOMAIN PoolGet(fn.pool, id)[1] : id \in S} |->
            FDiv(SumAt(S, k), Cardinality(S) * Scale)])

\* C27 as stated: build_centroid returns no centroid exactly when no id of
\* ids is a key of pool, and otherwise the centroid of the distinct ids of
\* ids that are keys of pool, each contributing once.
C27_NoneIffNoKey ==
    CentroidReturned =>
        /\ IsNone(fn.out[1]) <=> KeyIds = {}
        /\ ~IsNone(fn.out[1]) => fn.out[1] = Some(AverageOf(KeyIds))

\* C27: build_centroid returns no centroid exactly when no non-empty id of
\* ids is a key of pool with a non-empty vector, and otherwise the centroid
\* of the distinct such ids, each contributing once however often it is
\* repeated in ids; the other ids are skipped.
C27_NoneIffNoVector ==
    CentroidReturned =>
        /\ IsNone(fn.out[1]) <=> VectorIds = {}
        /\ ~IsNone(fn.out[1]) => fn.out[1] = Some(AverageOf(VectorIds))

\* a centroid of two different pool vectors, one of them named twice
C27_Witness ==
    /\ CentroidReturned
    /\ fn.ids = <<id_x, id_x, id_y>>
    /\ VectorIds = {id_x, id_y}
    /\ PoolGet(fn.pool, id_x) # PoolGet(fn.pool, id_y)
    /\ ~IsNone(fn.out[1])

\* the non-blank tokens of a set of tokens, trimmed
NonBlank(tokens) == {Strip(tok) : tok \in {x \in tokens : Len(Strip(x)) > 0}}

\* the vector has a non-zero entry for each of the tokens, found in vocab
HasEntries(vec, vocab, tokens) ==
    \A tok \in tokens :
        tok \in DOMAIN vocab /\ vocab[tok] \in DOMAIN vec /\ vec[vocab[tok]] # 0

\* C28: for a user of the fit population, transform(user) has a non-zero
\* entry for every non-blank token the user lists in any facet; so a user of
\* the fit population with a non-blank token never gets an empty vector.
C28_FitUsersKeepTokens ==
    (Transformed /\ \E i \in 1..Len(fn.users) : fn.users[i] = fn.user) =>
        LET st == fn.out[1].st
            vec == fn.out[1].vec
        IN  /\ HasEntries(vec, st.vocab_games, NonBlank(GameTokens(fn.user)))
            /\ HasEntries(vec, st.vocab_categories, NonBlank(CategoryTokens(fn.user)))
            /\ HasEntries(vec, st.vocab_languages, NonBlank(LanguageTokens(fn.user)))
            /\ NonBlank(GameTokens(fn.user) \cup CategoryTokens(fn.user)
                            \cup LanguageTokens(fn.user)) # {}
                   => DOMAIN vec # {}

\* the ids of the eligible, non-target candidates with a non-empty vector
PoolIds(st, target, candidates) ==
    {candidates[i].id : i \in {j \in 1..Len(candidates) :
                                  /\ candidates[j].id # target.id
                                  /\ _ok(target, candidates[j])
                                  /\ DOMAIN transform(st, candidates[j]) # {}}}

Min(a, b) == IF a < b THEN a ELSE b

\* C29: on a fitted recommender, with a non-empty target vector and
\* top_k >= 0, recommend returns exactly min(top_k, P) entries, P the number
\* of distinct ids of eligible, non-target candidates with a non-empty
\* vector; liked and disliked candidates stay in the result, so for
\* top_k >= P the returned ids are all of these ids, in strict and in
\* feedback mode alike.
C29_ExactlyMinTopKPool ==
    \A t \in Readers :
        (/\ Returned(t) /\ ~loc[t].sawNone /\ ~loc[t].raised
         /\ DOMAIN transform(heap[featurizer], loc[t].target) # {}
         /\ loc[t].top_k >= 0) =>
            LET ids == PoolIds(heap[featurizer], loc[t].target, loc[t].candidates)
            IN  /\ Len(loc[t].result) = Min(loc[t].top_k, Cardinality(ids))
                /\ loc[t].top_k >= Cardinality(ids) =>
                       /\ Range(Ids(loc[t].result)) = ids
                       /\ Range(Ids(recommend(heap[featurizer], loc[t].target,
                                              loc[t].candidates, loc[t].top_k, "strict"))) = ids
                       /\ Range(Ids(recommend(heap[featurizer], loc[t].target,
                                              loc[t].candidates, loc[t].top_k, "feedback"))) = ids

\* a feedback call has returned its whole pool, the liked and the disliked
\* candidate of the target included
C29_Witness ==
    \E t \in Readers :
        /\ Returned(t) /\ loc[t].mode = "feedback" /\ loc[t].top_k = 5
        /\ Len(loc[t].result) = 3
        /\ \E i \in 1..Len(loc[t].target.liked) :
               loc[t].target.liked[i] \in Range(Ids(loc[t].result))
        /\ \E i \in 1..Len(loc[t].target.disliked) :
               loc[t].target.disliked[i] \in Range(Ids(loc[t].result))

\* C30: the ids of the list recommend returns are pairwise distinct, also
\* when the candidate list holds the same id more than once.
C30_DistinctIds ==
    \A t \in Readers :
        Returned(t) =>
            \A i, j \in 1..Len(loc[t].result) :
                i # j => loc[t].result[i].id # loc[t].result[j].id

\* a call whose candidate list holds an id twice, both times eligible and
\* with a vector, has returned that id and another one
C30_Witness ==
    \E t \in Readers :
        /\ Returned(t)
        /\ Len(loc[t].result) = 2
        /\ \E i, j \in 1..Len(loc[t].candidates) :
               /\ i # j
               /\ loc[t].candidates[i].id = loc[t].candidates[j].id
               /\ loc[t].candidates[i].id \in Range(Ids(loc[t].result))
               /\ _ok(loc[t].target, loc[t].candidates[i])
               /\ _ok(loc[t].target, loc[t].candidates[j])
               /\ DOMAIN transform(heap[featurizer], loc[t].candidates[i]) # {}
               /\ DOMAIN transform(heap[featurizer], loc[t].candidates[j]) # {}
====
